---- MODULE Spec2Model ----
(***************************************************************************)
(* x402-mcp: the two tools of src/x402_mcp/app.py, discovery_resource and  *)
(* call_service, as a state machine.  An invocation advances from one      *)
(* network suspension point (await) to the next in one action.  In Spec    *)
(* one invocation runs at a time; in SpecConcurrent the event loop         *)
(* switches between tasks at the awaits.  Python strings are sequences of  *)
(* one-character strings, bytes are sequences of numbers, dicts are        *)
(* functions.                                                              *)
(***************************************************************************)
EXTENDS Integers, Sequences, FiniteSets, TLC

VARIABLES
    pc,                     \* position of the running invocation
    resource,               \* call_service argument (characters)
    method,                 \* call_service argument (characters)
    custom_network_filter,  \* call_service argument (None or a string)
    private_key,            \* module global read at line 28: "valid" or "invalid"
    httpx_default_timeout,  \* module global read at line 27 (characters)
    endpoint_path,          \* local of call_service (line 211)
    base_url,               \* local of call_service (line 212)
    session,                \* the HTTP client of the invocation: none / open / closed
    sessionsOpened,         \* HTTP clients the invocation has entered (async with)
    elapsed,                \* time units the pending request of call_service has waited
    requests,               \* HTTP requests issued by the invocation, in order
    signerCalls,            \* Signer invocations of the invocation
    first,                  \* first response received by call_service, or NoResponse
    accepts,                \* accepts list parsed from a payment-required response
    selectorArgs,           \* the filters the paying client passed to the selector
    selected,               \* what the selector returned: <<>> or <<requirement>>
    response,               \* the response handed to lines 250-269, or NoResponse
    logged,                 \* the exception given to logger.exception (line 272)
    outcome,                \* how the invocation ended: returned value or raised exception
    asset,                  \* discovery_resource argument
    max_price,              \* discovery_resource argument
    services,               \* the page list() returned (line 162), before filtering
    heard,                  \* what the invocation received: the tool call, then the
                            \* transport's answers, in order
    running,                \* the task the event loop is running
    tasks                   \* the frames of the tasks suspended at an await

vars == <<pc, resource, method, custom_network_filter, private_key,
          httpx_default_timeout, endpoint_path, base_url, session, sessionsOpened,
          elapsed, requests, signerCalls, first, accepts, selectorArgs, selected,
          response, logged, outcome, asset, max_price, services, heard, running,
          tasks>>

\* the module globals, and the other tasks of the event loop: no handler writes them
envVars == <<private_key, httpx_default_timeout, running, tasks>>

callVars == <<resource, method, custom_network_filter, endpoint_path, base_url,
              signerCalls, first, accepts, selectorArgs, selected, response, logged,
              elapsed>>

discVars == <<asset, max_price, services>>

None == "None"

\* ------------------------------------------------------------------ bounds
MaxCallAccepts == 2     \* entries of the accepts list of a payment-required response
MaxItems == 2           \* items of a discovery page
MaxEntries == 2         \* accepts entries of a discovery page, over all its items
MaxTasks == 2           \* tool invocations in progress at the same time

\* ------------------------------------------------------- Python built-ins
startswith(s, p) == Len(s) >= Len(p) /\ SubSeq(s, 1, Len(p)) = p

RECURSIVE split(_, _)
split(s, sep) ==
    IF \A i \in 1..Len(s) : s[i] # sep
    THEN <<s>>
    ELSE LET i == CHOOSE k \in 1..Len(s) :
                      s[k] = sep /\ \A j \in 1..(k - 1) : s[j] # sep
         IN  <<SubSeq(s, 1, i - 1)>> \o split(SubSeq(s, i + 1, Len(s)), sep)

RECURSIVE join(_, _)
join(sep, parts) ==
    IF parts = <<>> THEN <<>>
    ELSE IF Len(parts) = 1 THEN parts[1]
    ELSE parts[1] \o <<sep>> \o join(sep, Tail(parts))

lowerChar(c) ==
    CASE c = "G" -> "g" [] c = "E" -> "e" [] c = "T" -> "t" [] c = "P" -> "p"
      [] c = "O" -> "o" [] c = "S" -> "s" [] c = "U" -> "u" [] OTHER -> c

lower(s) == [i \in 1..Len(s) |-> lowerChar(s[i])]

\* bytes.decode(): UTF-8, strict.  Bytes below 128 are the ASCII characters;
\* the byte 255 occurs in no UTF-8 encoding.
decodable(content) == \A i \in 1..Len(content) : content[i] < 128

chr(b) == CASE b = 104 -> "h" [] b = 105 -> "i" [] OTHER -> "?"

decode(content) == [i \in 1..Len(content) |-> chr(content[i])]

\* int(v) of a string: defined on non-empty digit strings, ValueError otherwise
\* (signs, underscores and surrounding blanks are outside the alphabet used).
isDigit(c) == c \in {"0", "1", "2", "3", "4", "5", "6", "7", "8", "9"}

digit(c) ==
    CASE c = "0" -> 0 [] c = "1" -> 1 [] c = "2" -> 2 [] c = "3" -> 3 [] c = "4" -> 4
      [] c = "5" -> 5 [] c = "6" -> 6 [] c = "7" -> 7 [] c = "8" -> 8 [] c = "9" -> 9

intRaises(v) == Len(v) = 0 \/ \E i \in 1..Len(v) : ~isDigit(v[i])

RECURSIVE int(_)
int(v) == IF Len(v) = 1 THEN digit(v[1])
          ELSE 10 * int(SubSeq(v, 1, Len(v) - 1)) + digit(v[Len(v)])

\* ----------------------------------------------------------------- inputs
HTTP == <<"h", "t", "t", "p">>

Prefixes == { <<>>, HTTP, HTTP \o <<"s">>, <<"f", "t", "p">> }

Rests == { <<":", "/", "/", "a", "/", "b">>,       \* ://a/b
           <<":", "/", "/", "a">>,                 \* ://a
           <<"/", "b">> }                          \* /b

ResourceInputs == { p \o r : p \in Prefixes, r \in Rests }
                    \cup { HTTP \o <<":", "/", "/", "a", "/">> }      \* http://a/

MethodInputs == { <<"g", "e", "t">>, <<"G", "E", "T">>, <<"p", "o", "s", "t">>,
                  <<"P", "o", "s", "t">>, <<"p", "u", "t">>, <<"P", "U", "T">>, <<>> }

NetworkFilterInputs == { None, "", "base" }

\* line 27: the value of HTTPX_DEFAULT_TIMEOUT, "30" when the variable is unset;
\* only values int() accepts are drawn
DefaultTimeout == <<"3", "0">>

TimeoutInputs == { DefaultTimeout, <<"1">> }

Keys == { "valid", "invalid" }

\* An Optional value is <<>> (None) or <<v>>.
Opt(S) == { <<>> } \cup { <<v>> : v \in S }

\* ------------------------------------------------------ transport values
Statuses == { 200, 402, 500 }

XPaymentResponses == { "b64({transaction:0xaa})", "b64({success:true})", "%%%" }

NoHeaders == [n \in {} |-> ""]

HeaderSets == { NoHeaders }
                \cup { [n \in {"X-Payment-Response"} |-> v] : v \in XPaymentResponses }

Contents == { <<104, 105>>, <<255>> }

Responses == [status : Statuses, headers : HeaderSets, content : Contents]

\* Requirements a payment-required response offers.
Schemes == { "exact", "upto" }

Networks == { "base", "solana" }

CallRequirements == [scheme : Schemes, network : Networks,
                     max_amount_required : { <<"5">> }]

SeqsUpTo(S, n) == UNION { [1..k -> S] : k \in 0..n }

SelectorAccepts == SeqsUpTo(CallRequirements, MaxCallAccepts)

\* accepts lists of the payment-required responses call_service receives
CallAccepts == SeqsUpTo({ r \in CallRequirements :
                              r.scheme = "exact" \/ r.network = "base" }, MaxCallAccepts)

\* ------------------------------------------- Requirement Selector (4.2)
\* maxAmountRequired as a number: the empty string counts as zero.
amountOf(v) == IF Len(v) = 0 THEN 0 ELSE int(v)

matches(req, network_filter, scheme_filter, max_value) ==
    /\ (network_filter = None \/ req.network = network_filter)
    /\ (scheme_filter = None \/ req.scheme = scheme_filter)
    /\ (max_value = <<>> \/ amountOf(req.max_amount_required) <= max_value[1])

\* x402Client.default_payment_requirements_selector: the first matching entry,
\* <<>> for NotFoundError.
default_payment_requirements_selector(accs, network_filter, scheme_filter, max_value) ==
    LET hits == { i \in 1..Len(accs) :
                      matches(accs[i], network_filter, scheme_filter, max_value) }
    IN  IF hits = {} THEN <<>>
        ELSE << accs[CHOOSE i \in hits : \A j \in hits : i <= j] >>

\* variants of custom_payment_selector: the override written to the scheme filter,
\* the override dropped, the override used only as a default
custom_payment_selector_scheme(accs, network_filter, scheme_filter, max_value) ==
    LET sf == IF custom_network_filter # None /\ custom_network_filter # ""
              THEN custom_network_filter
              ELSE scheme_filter
    IN  default_payment_requirements_selector(accs, network_filter, sf, max_value)

custom_payment_selector_dropped(accs, network_filter, scheme_filter, max_value) ==
    default_payment_requirements_selector(accs, network_filter, scheme_filter, max_value)

custom_payment_selector_default(accs, network_filter, scheme_filter, max_value) ==
    LET nf == IF network_filter = None /\ custom_network_filter # ""
              THEN custom_network_filter
              ELSE network_filter
    IN  default_payment_requirements_selector(accs, nf, scheme_filter, max_value)

\* variant of custom_payment_selector: an empty override applied like any other
custom_payment_selector_empty(accs, network_filter, scheme_filter, max_value) ==
    LET nf == IF custom_network_filter # None
              THEN custom_network_filter
              ELSE network_filter
    IN  default_payment_requirements_selector(accs, nf, scheme_filter, max_value)

\* lines 214-231; custom_network_filter is the enclosing call's argument
custom_payment_selector(accs, network_filter, scheme_filter, max_value) ==
    LET nf == IF custom_network_filter # None /\ custom_network_filter # ""
              THEN custom_network_filter
              ELSE network_filter
    IN  default_payment_requirements_selector(accs, nf, scheme_filter, max_value)

\* The filters the paying client hands to its selector: call_service sets none
\* on the client (lines 233-238).
ClientArgs == [network_filter |-> None, scheme_filter |-> None, max_value |-> <<>>]

\* ------------------------------------------------- settlement receipt
decode_x_payment_response_raises(h) == h = "%%%"

decode_x_payment_response(h) ==
    CASE h = "b64({transaction:0xaa})" -> [k \in {"transaction"} |-> "0xaa"]
      [] h = "b64({success:true})" -> [k \in {"success"} |-> "true"]

\* ------------------------------------------------------------ outcomes
NoOutcome == [how |-> "none"]

Returned(v) == [how |-> "returned", value |-> v]

Raised(exc, msg) == [how |-> "raised", exc |-> exc, msg |-> msg]

\* line 274
RequestFailed == Returned([error |-> "Request failed"])

\* lines 250-269: what processing of the final response raises, or None
readRaises(resp) ==
    IF ~decodable(resp.content) THEN "UnicodeDecodeError"
    ELSE IF "X-Payment-Response" \in DOMAIN resp.headers
    THEN IF decode_x_payment_response_raises(resp.headers["X-Payment-Response"])
         THEN "DecodeError"
         ELSE IF "transaction" \notin
                    DOMAIN decode_x_payment_response(resp.headers["X-Payment-Response"])
         THEN "KeyError"
         ELSE None
    ELSE None

\* variant of readResult: the header returned as received, not decoded
readResult_raw(resp) ==
    [result |-> decode(resp.content),
     hash |-> IF "X-Payment-Response" \in DOMAIN resp.headers
              THEN resp.headers["X-Payment-Response"]
              ELSE None]

\* lines 266-269: the dict returned
readResult(resp) ==
    [result |-> decode(resp.content),
     hash |-> IF "X-Payment-Response" \in DOMAIN resp.headers
              THEN decode_x_payment_response(resp.headers["X-Payment-Response"])["transaction"]
              ELSE None]

\* lines 250-274: the end of call_service once the client call has returned resp
Finish(resp) ==
    /\ response' = <<resp>>
    /\ session' = "closed"
    /\ elapsed' = 0
    /\ pc' = "call_done"
    /\ IF readRaises(resp) # None
       THEN /\ logged' = readRaises(resp)
            /\ outcome' = RequestFailed
       ELSE /\ logged' = None
            /\ outcome' = Returned(readResult(resp))

\* variant of Caught: the returned error names the exception
Caught_kind(e) ==
    /\ logged' = e
    /\ session' = "closed"
    /\ elapsed' = 0
    /\ outcome' = Returned([error |-> e])
    /\ pc' = "call_done"

\* variant of Caught: the handler raises the exception again
Caught_reraise(e) ==
    /\ logged' = e
    /\ session' = "closed"
    /\ elapsed' = 0
    /\ outcome' = Raised("Exception", e)
    /\ pc' = "call_done"

\* lines 271-274: an exception raised inside the try block
Caught(e) ==
    /\ logged' = e
    /\ session' = "closed"
    /\ elapsed' = 0
    /\ outcome' = RequestFailed
    /\ pc' = "call_done"

\* --------------------------------------------------------------- frames
Tasks == 1..MaxTasks

\* the parameters and locals of an invocation (lines 141-180 and 184-274) with its
\* position: what the coroutine keeps while it is suspended
Frame ==
    [pc |-> pc, resource |-> resource, method |-> method,
     custom_network_filter |-> custom_network_filter,
     endpoint_path |-> endpoint_path, base_url |-> base_url,
     session |-> session, sessionsOpened |-> sessionsOpened, elapsed |-> elapsed,
     requests |-> requests, signerCalls |-> signerCalls, first |-> first,
     accepts |-> accepts, selectorArgs |-> selectorArgs, selected |-> selected,
     response |-> response, logged |-> logged, outcome |-> outcome,
     asset |-> asset, max_price |-> max_price, services |-> services,
     heard |-> heard]

\* the frame of a task that has not been given a tool call
IdleFrame ==
    [pc |-> "idle", resource |-> <<>>, method |-> <<>>,
     custom_network_filter |-> None,
     endpoint_path |-> <<>>, base_url |-> <<>>,
     session |-> "none", sessionsOpened |-> 0, elapsed |-> 0,
     requests |-> <<>>, signerCalls |-> 0, first |-> <<>>,
     accepts |-> <<>>, selectorArgs |-> ClientArgs, selected |-> <<>>,
     response |-> <<>>, logged |-> None, outcome |-> NoOutcome,
     asset |-> None, max_price |-> <<>>, services |-> <<>>,
     heard |-> <<>>]

\* --------------------------------------------------------------- Init
Init ==
    /\ pc = "idle"
    /\ private_key \in Keys
    /\ httpx_default_timeout \in TimeoutInputs
    /\ resource = <<>> /\ method = <<>> /\ custom_network_filter = None
    /\ endpoint_path = <<>> /\ base_url = <<>>
    /\ session = "none" /\ sessionsOpened = 0 /\ elapsed = 0
    /\ requests = <<>>
    /\ signerCalls = 0
    /\ first = <<>> /\ accepts = <<>>
    /\ selectorArgs = ClientArgs /\ selected = <<>>
    /\ response = <<>>
    /\ logged = None
    /\ outcome = NoOutcome
    /\ asset = None /\ max_price = <<>>
    /\ services = <<>>
    /\ heard = <<>>
    /\ running = 1
    /\ tasks = [i \in Tasks |-> IdleFrame]

Idle == pc = "idle"

\* ---------------------------------------------------------- call_service
Request(m, path, payment) == [method |-> m, path |-> path, payment |-> payment]

\* variant of resourceError: three segments accepted
resourceError_lt3(res) ==
    IF ~startswith(res, HTTP)
    THEN "Resource must be a valid URL starting with http or https"
    ELSE IF Len(split(res, "/")) < 3 THEN "Resource URL is not valid"
    ELSE None

\* lines 204-209: the message of the ValueError the resource check raises, or None
resourceError(res) ==
    IF ~startswith(res, HTTP)
    THEN "Resource must be a valid URL starting with http or https"
    ELSE IF Len(split(res, "/")) < 4 THEN "Resource URL is not valid"
    ELSE None

\* variants of dispatch: post falling through to get, methods compared as given
dispatch_both(m, path) ==
    IF lower(m) = <<"p", "o", "s", "t">>
    THEN <<Request("POST", path, <<>>), Request("GET", path, <<>>)>>
    ELSE IF lower(m) = <<"g", "e", "t">> THEN <<Request("GET", path, <<>>)>>
    ELSE <<>>

dispatch_cased(m, path) ==
    IF m = <<"p", "o", "s", "t">> THEN <<Request("POST", path, <<>>)>>
    ELSE IF m = <<"g", "e", "t">> THEN <<Request("GET", path, <<>>)>>
    ELSE <<>>

\* lines 243-248: the requests the method dispatch issues; none when it raises
dispatch(m, path) ==
    IF lower(m) = <<"p", "o", "s", "t">> THEN <<Request("POST", path, <<>>)>>
    ELSE IF lower(m) = <<"g", "e", "t">> THEN <<Request("GET", path, <<>>)>>
    ELSE <<>>

\* lines 184-249, up to the first await of the client call
CallService(res, m, cnf) ==
    /\ Idle
    /\ resource' = res /\ method' = m /\ custom_network_filter' = cnf
    /\ heard' = <<[kind |-> "call_service", resource |-> res, method |-> m,
                   custom_network_filter |-> cnf]>>
    /\ signerCalls' = 0
    /\ first' = <<>> /\ accepts' = <<>> /\ response' = <<>>
    /\ selectorArgs' = ClientArgs /\ selected' = <<>>
    /\ UNCHANGED <<envVars, discVars>>
    /\ IF private_key = "invalid"
       THEN \* line 201: Account.from_key raises
            /\ outcome' = Raised("ValueError", "The private key must be exactly 32 bytes long")
            /\ pc' = "call_done"
            /\ endpoint_path' = <<>> /\ base_url' = <<>>
            /\ session' = "none" /\ requests' = <<>> /\ logged' = None
            /\ sessionsOpened' = 0 /\ elapsed' = 0
       ELSE IF resourceError(res) # None
       THEN /\ outcome' = Raised("ValueError", resourceError(res))
            /\ pc' = "call_done"
            /\ endpoint_path' = <<>> /\ base_url' = <<>>
            /\ session' = "none" /\ requests' = <<>> /\ logged' = None
            /\ sessionsOpened' = 0 /\ elapsed' = 0
       ELSE LET parts == split(res, "/")
                path == <<"/">> \o join("/", SubSeq(parts, 4, Len(parts)))
            IN  /\ endpoint_path' = path
                /\ base_url' = join("/", SubSeq(parts, 1, 3))
                /\ requests' = dispatch(m, path)
                /\ sessionsOpened' = 1
                /\ IF dispatch(m, path) # <<>>
                   THEN /\ session' = "open" /\ logged' = None
                        /\ elapsed' = 0
                        /\ outcome' = NoOutcome /\ pc' = "call_first"
                   ELSE Caught("ValueError: Unsupported HTTP method")

\* the transport fails the first request: the client call raises (lines 244, 246)
FirstTransportFailure ==
    /\ pc = "call_first"
    /\ Caught("TransportError")
    /\ heard' = Append(heard, [kind |-> "failure"])
    /\ UNCHANGED <<resource, method, custom_network_filter, envVars, endpoint_path,
                   base_url, sessionsOpened, requests, signerCalls, first, accepts,
                   selectorArgs, selected, response, discVars>>

\* a first response that is not "payment required": the client returns it as is
FirstResponse(resp) ==
    /\ pc = "call_first"
    /\ resp.status # 402
    /\ first' = <<resp>>
    /\ Finish(resp)
    /\ heard' = Append(heard, [kind |-> "response", response |-> resp])
    /\ UNCHANGED <<resource, method, custom_network_filter, envVars, endpoint_path,
                   base_url, sessionsOpened, requests, signerCalls, accepts,
                   selectorArgs, selected, discVars>>

\* a first response "payment required": Inspect, Select, Authorize, Send-Paid (4.4)
PaymentRequired(parses, accs, signs) ==
    /\ pc = "call_first"
    /\ first' = <<[status |-> 402, headers |-> NoHeaders, content |-> <<>>]>>
    /\ selectorArgs' = ClientArgs
    /\ UNCHANGED <<resource, method, custom_network_filter, envVars, endpoint_path,
                   base_url, sessionsOpened, response, discVars>>
    /\ IF ~parses
       THEN /\ accepts' = <<>> /\ selected' = <<>>
            /\ UNCHANGED <<requests, signerCalls>>
            /\ heard' = Append(heard, [kind |-> "payment_required", parses |-> FALSE,
                                       accepts |-> <<>>, signs |-> FALSE])
            /\ Caught("SchemaError")
       ELSE LET sel == custom_payment_selector(accs, ClientArgs.network_filter,
                           ClientArgs.scheme_filter, ClientArgs.max_value)
            IN  /\ accepts' = accs
                /\ selected' = sel
                /\ heard' = Append(heard, [kind |-> "payment_required", parses |-> TRUE,
                                           accepts |-> accs,
                                           signs |-> sel # <<>> /\ signs])
                /\ IF sel = <<>>
                   THEN /\ UNCHANGED <<requests, signerCalls>>
                        /\ Caught("NotFoundError")
                   ELSE /\ signerCalls' = signerCalls + 1
                        /\ IF ~signs
                           THEN /\ UNCHANGED requests
                                /\ Caught("SigningError")
                           ELSE /\ requests' = Append(requests,
                                        Request(requests[1].method, requests[1].path, sel))
                                /\ UNCHANGED <<session, logged, outcome>>
                                /\ elapsed' = 0
                                /\ pc' = "call_paid"

\* the transport fails the paid request
PaidTransportFailure ==
    /\ pc = "call_paid"
    /\ Caught("TransportError")
    /\ heard' = Append(heard, [kind |-> "failure"])
    /\ UNCHANGED <<resource, method, custom_network_filter, envVars, endpoint_path,
                   base_url, sessionsOpened, requests, signerCalls, first, accepts,
                   selectorArgs, selected, response, discVars>>

\* the response to the paid request, whatever its status: no further retry
PaidResponse(resp) ==
    /\ pc = "call_paid"
    /\ Finish(resp)
    /\ heard' = Append(heard, [kind |-> "response", response |-> resp])
    /\ UNCHANGED <<resource, method, custom_network_filter, envVars, endpoint_path,
                   base_url, sessionsOpened, requests, signerCalls, first, accepts,
                   selectorArgs, selected, discVars>>

\* variant of timeout: the client built without a bound on its waits
timeout_none == <<>>

\* line 237: Timeout(int(httpx_default_timeout)), the bound the client puts on
\* every wait for the transport
timeout == <<int(httpx_default_timeout)>>

Pending == pc \in { "call_first", "call_paid" }

\* one time unit passes while a request of call_service waits for the transport
Tick ==
    /\ Pending
    /\ timeout # <<>> /\ elapsed < timeout[1]
    /\ elapsed' = elapsed + 1
    /\ UNCHANGED <<pc, resource, method, custom_network_filter, envVars, endpoint_path,
                   base_url, session, sessionsOpened, requests, signerCalls, first,
                   accepts, selectorArgs, selected, response, logged, outcome,
                   discVars, heard>>

\* the pending request has waited the whole timeout: the client call raises a
\* timeout exception (a transport error) inside the try block; nothing reissues it
RequestTimeout ==
    /\ Pending
    /\ timeout # <<>> /\ elapsed = timeout[1]
    /\ Caught("ReadTimeout")
    /\ heard' = Append(heard, [kind |-> "timeout"])
    /\ UNCHANGED <<resource, method, custom_network_filter, envVars, endpoint_path,
                   base_url, sessionsOpened, requests, signerCalls, first, accepts,
                   selectorArgs, selected, response, discVars>>

\* variant of Cancelled: the client is left open when the task is cancelled
Cancelled_open(done) ==
    /\ session' = "open"
    /\ outcome' = Raised("CancelledError", "")
    /\ pc' = done

\* lines 121 and 233: the tool host cancels the task at an await; CancelledError
\* is not an Exception, so line 271 does not catch it, and it leaves the
\* "async with" block, which closes the client
Cancelled(done) ==
    /\ session' = "closed"
    /\ outcome' = Raised("CancelledError", "")
    /\ pc' = done

CancelCall ==
    /\ Pending
    /\ Cancelled("call_done")
    /\ elapsed' = 0
    /\ heard' = Append(heard, [kind |-> "cancel"])
    /\ UNCHANGED <<resource, method, custom_network_filter, envVars, endpoint_path,
                   base_url, sessionsOpened, requests, signerCalls, first, accepts,
                   selectorArgs, selected, response, logged, discVars>>

\* the outcome goes to the tool host; the invocation's frame is gone and the
\* server waits for the next tool call (app.run, line 281)
Return ==
    /\ pc \in { "call_done", "disc_done" }
    /\ pc' = "idle"
    /\ resource' = <<>> /\ method' = <<>> /\ custom_network_filter' = None
    /\ endpoint_path' = <<>> /\ base_url' = <<>>
    /\ session' = "none" /\ sessionsOpened' = 0 /\ elapsed' = 0
    /\ requests' = <<>>
    /\ signerCalls' = 0
    /\ first' = <<>> /\ accepts' = <<>>
    /\ selectorArgs' = ClientArgs /\ selected' = <<>>
    /\ response' = <<>>
    /\ logged' = None
    /\ outcome' = NoOutcome
    /\ asset' = None /\ max_price' = <<>>
    /\ services' = <<>>
    /\ heard' = <<>>
    /\ UNCHANGED envVars

CallNext ==
    \/ Idle /\ \E res \in ResourceInputs, m \in MethodInputs, cnf \in NetworkFilterInputs :
                   CallService(res, m, cnf)
    \/ FirstTransportFailure
    \/ \E resp \in Responses : FirstResponse(resp)
    \/ pc = "call_first" /\ \E parses \in BOOLEAN, accs \in CallAccepts, signs \in BOOLEAN :
                                PaymentRequired(parses, accs, signs)
    \/ PaidTransportFailure
    \/ \E resp \in Responses : PaidResponse(resp)
    \/ Tick
    \/ RequestTimeout
    \/ CancelCall

\* ------------------------------------------------- discovery_resource
Requirement(a, v) == [asset |-> a, max_amount_required |-> v]

\* accepts entries as the Facilitator Service sends them
DiscRequirements == { Requirement("A", <<"5">>), Requirement("A", <<"5", "0">>),
                      Requirement("B", <<"5">>), Requirement("A", <<>>),
                      Requirement("A", <<"x">>) }

RECURSIVE ItemSeqs(_, _)
\* the sequences of at most k items that hold at most t accepts entries in all
ItemSeqs(k, t) ==
    IF k = 0 THEN { <<>> }
    ELSE { <<>> } \cup
         UNION { { <<[accepts |-> l]>> \o rest : rest \in ItemSeqs(k - 1, t - Len(l)) } :
                 l \in SeqsUpTo(DiscRequirements, t) }

Paginations == { [limit |-> 2, offset |-> 0, total |-> 7],
                 [limit |-> 100, offset |-> 0, total |-> 0] }

DiscoveryData == [x402_version : {1}, items : ItemSeqs(MaxItems, MaxEntries),
                  pagination : Paginations]

AssetInputs == { None, "A" }

MaxPriceInputs == Opt({0, 5})

\* lines 50-58: the field validator raises unless v is empty or int(v) is defined
validate_max_amount_required_raises(v) == ~(Len(v) = 0) /\ intRaises(v)

\* line 135: model construction validates every entry of every item
constructionRaises(data) ==
    \E i \in 1..Len(data.items) : \E j \in 1..Len(data.items[i].accepts) :
        validate_max_amount_required_raises(data.items[i].accepts[j].max_amount_required)

\* lines 173-174: evaluating the condition for one entry raises ValueError when
\* int() is reached on a string it rejects
conditionRaises(req, a, mp) ==
    (a = None \/ req.asset = a) /\ mp # <<>> /\ intRaises(req.max_amount_required)

condition(req, a, mp) ==
    /\ (a = None \/ req.asset = a)
    /\ (mp = <<>> \/ int(req.max_amount_required) <= mp[1])

RECURSIVE any(_, _, _)
\* lines 172-176: any() over the generator, entry by entry, stopping at the first
\* true one: "True", "False" or "ValueError"
any(accs, a, mp) ==
    IF accs = <<>> THEN "False"
    ELSE IF conditionRaises(Head(accs), a, mp) THEN "ValueError"
    ELSE IF condition(Head(accs), a, mp) THEN "True"
    ELSE any(Tail(accs), a, mp)

RECURSIVE filterRaises(_, _, _)
\* lines 167-177: whether the loop over the items raises
filterRaises(items, a, mp) ==
    IF items = <<>> THEN FALSE
    ELSE IF a = None /\ mp = <<>> THEN FALSE
    ELSE IF any(Head(items).accepts, a, mp) = "ValueError" THEN TRUE
    ELSE filterRaises(Tail(items), a, mp)

RECURSIVE result_services_any(_, _, _)
\* variant of result_services: the accepts test applied with both filters unset too
result_services_any(items, a, mp) ==
    IF items = <<>> THEN <<>>
    ELSE IF any(Head(items).accepts, a, mp) = "True"
    THEN <<Head(items)>> \o result_services_any(Tail(items), a, mp)
    ELSE result_services_any(Tail(items), a, mp)

RECURSIVE result_services_prepend(_, _, _)
\* variant of result_services: each retained item put at the front of the list
result_services_prepend(items, a, mp) ==
    IF items = <<>> THEN <<>>
    ELSE IF (a = None /\ mp = <<>>) \/ any(Head(items).accepts, a, mp) = "True"
    THEN result_services_prepend(Tail(items), a, mp) \o <<Head(items)>>
    ELSE result_services_prepend(Tail(items), a, mp)

RECURSIVE result_services(_, _, _)
\* lines 166-177: the list the loop builds
result_services(items, a, mp) ==
    IF items = <<>> THEN <<>>
    ELSE IF a = None /\ mp = <<>>
    THEN <<Head(items)>> \o result_services(Tail(items), a, mp)
    ELSE IF any(Head(items).accepts, a, mp) = "True"
    THEN <<Head(items)>> \o result_services(Tail(items), a, mp)
    ELSE result_services(Tail(items), a, mp)

\* lines 141-164 and 105-127: up to the await of client.get
DiscoveryResource(lim, off, a, mp) ==
    /\ Idle
    /\ asset' = a /\ max_price' = mp
    /\ services' = <<>>
    /\ session' = "open" /\ sessionsOpened' = 1
    /\ requests' = <<[method |-> "GET", path |-> <<"/discovery/resources">>,
                      params |-> [limit |-> lim, offset |-> off], payment |-> <<>>]>>
    /\ outcome' = NoOutcome
    /\ pc' = "disc_fetch"
    /\ heard' = <<[kind |-> "discovery_resource", limit |-> lim, offset |-> off,
                   asset |-> a, max_price |-> mp]>>
    /\ UNCHANGED <<envVars, callVars>>

\* client.get raises: nothing in list() or discovery_resource catches it
DiscoveryTransportFailure ==
    /\ pc = "disc_fetch"
    /\ session' = "closed"
    /\ outcome' = Raised("TransportError", <<>>)
    /\ pc' = "disc_done"
    /\ heard' = Append(heard, [kind |-> "failure"])
    /\ UNCHANGED <<envVars, callVars, discVars, requests, sessionsOpened>>

\* variant of failedToList: the body text left out of the message
failedToList_status(status, text) == [status |-> status, text |-> ""]

\* lines 130-132: what the message of the ValueError embeds
failedToList(status, text) == [status |-> status, text |-> text]

\* lines 129-132: a status other than 200
DiscoveryFailed(status, text) ==
    /\ pc = "disc_fetch"
    /\ status # 200
    /\ session' = "closed"
    /\ outcome' = Raised("ValueError", failedToList(status, text))
    /\ pc' = "disc_done"
    /\ heard' = Append(heard, [kind |-> "status", status |-> status, text |-> text])
    /\ UNCHANGED <<envVars, callVars, discVars, requests, sessionsOpened>>

\* lines 134-135 and 166-180: status 200 with the page data
DiscoveryFetched(data) ==
    /\ pc = "disc_fetch"
    /\ session' = "closed"
    /\ pc' = "disc_done"
    /\ heard' = Append(heard, [kind |-> "page", data |-> data])
    /\ UNCHANGED <<envVars, callVars, asset, max_price, requests, sessionsOpened>>
    /\ IF constructionRaises(data)
       THEN /\ services' = <<>>
            /\ outcome' = Raised("ValidationError", <<>>)
       ELSE /\ services' = <<data>>
            /\ IF filterRaises(data.items, asset, max_price)
               THEN outcome' = Raised("ValueError", <<>>)
               ELSE outcome' = Returned([data EXCEPT
                                   !.items = result_services(data.items, asset, max_price)])

CancelDiscovery ==
    /\ pc = "disc_fetch"
    /\ Cancelled("disc_done")
    /\ heard' = Append(heard, [kind |-> "cancel"])
    /\ UNCHANGED <<envVars, callVars, discVars, requests, sessionsOpened>>

DiscoveryNext ==
    \/ Idle /\ \E lim \in {2, 100}, off \in {0}, a \in AssetInputs, mp \in MaxPriceInputs :
                   DiscoveryResource(lim, off, a, mp)
    \/ DiscoveryTransportFailure
    \/ \E status \in {204, 404, 500}, text \in {"unavailable"} :
           DiscoveryFailed(status, text)
    \/ pc = "disc_fetch" /\ \E data \in DiscoveryData : DiscoveryFetched(data)
    \/ CancelDiscovery

Next == CallNext \/ DiscoveryNext \/ Return

Spec == Init /\ [][Next]_vars


\* ------------------------------------------- concurrent tool invocations
\* variant of Restore: custom_network_filter kept in a module global, which a
\* resumed coroutine finds as the last invocation left it
Restore_global(f) ==
    /\ pc' = f.pc /\ resource' = f.resource /\ method' = f.method
    /\ UNCHANGED custom_network_filter
    /\ endpoint_path' = f.endpoint_path /\ base_url' = f.base_url
    /\ session' = f.session /\ sessionsOpened' = f.sessionsOpened
    /\ elapsed' = f.elapsed
    /\ requests' = f.requests /\ signerCalls' = f.signerCalls
    /\ first' = f.first /\ accepts' = f.accepts
    /\ selectorArgs' = f.selectorArgs /\ selected' = f.selected
    /\ response' = f.response /\ logged' = f.logged /\ outcome' = f.outcome
    /\ asset' = f.asset /\ max_price' = f.max_price /\ services' = f.services
    /\ heard' = f.heard

\* lines 141-146 and 184-189: every name a handler assigns is a parameter or a
\* local of its coroutine; a resumed coroutine finds them as it left them
Restore(f) ==
    /\ pc' = f.pc /\ resource' = f.resource /\ method' = f.method
    /\ custom_network_filter' = f.custom_network_filter
    /\ endpoint_path' = f.endpoint_path /\ base_url' = f.base_url
    /\ session' = f.session /\ sessionsOpened' = f.sessionsOpened
    /\ elapsed' = f.elapsed
    /\ requests' = f.requests /\ signerCalls' = f.signerCalls
    /\ first' = f.first /\ accepts' = f.accepts
    /\ selectorArgs' = f.selectorArgs /\ selected' = f.selected
    /\ response' = f.response /\ logged' = f.logged /\ outcome' = f.outcome
    /\ asset' = f.asset /\ max_price' = f.max_price /\ services' = f.services
    /\ heard' = f.heard

\* the running task is at an await (or has ended, or waits for a tool call): the
\* event loop suspends it and resumes task i
Switch(i) ==
    /\ i \in Tasks \ { running }
    /\ pc \in { "idle", "call_first", "call_paid", "disc_fetch", "call_done",
                 "disc_done" }
    /\ tasks' = [tasks EXCEPT ![running] = Frame, ![i] = IdleFrame]
    /\ running' = i
    /\ Restore(tasks[i])
    /\ UNCHANGED <<private_key, httpx_default_timeout>>

\* what the invocations of the two specifications below are given
SmallResource == HTTP \o <<":", "/", "/", "a", "/", "b">>

SmallAccepts == { <<[scheme |-> "exact", network |-> "solana",
                          max_amount_required |-> <<"5">>]>> }

SmallResponse == [status |-> 200,
                       headers |-> [n \in {"X-Payment-Response"} |->
                                       "b64({transaction:0xaa})"],
                       content |-> <<104, 105>>]

SmallData == [x402_version |-> 1,
                   items |-> <<[accepts |-> <<Requirement("B", <<"5">>)>>],
                               [accepts |-> <<Requirement("A", <<"5">>)>>]>>,
                   pagination |-> [limit |-> 100, offset |-> 0, total |-> 0]]

InitConcurrent ==
    /\ Init
    /\ private_key = "valid"
    /\ httpx_default_timeout = DefaultTimeout

\* every task is given at most one tool call; the tasks interleave at the awaits
NextConcurrent ==
    \/ Idle /\ \E cnf \in { None, "base" } :
                   CallService(SmallResource, <<"g", "e", "t">>, cnf)
    \/ FirstResponse(SmallResponse)
    \/ pc = "call_first" /\ \E accs \in SmallAccepts :
                                PaymentRequired(TRUE, accs, TRUE)
    \/ PaidResponse(SmallResponse)
    \/ Idle /\ \E a \in AssetInputs : DiscoveryResource(100, 0, a, <<>>)
    \/ pc = "disc_fetch" /\ DiscoveryFetched(SmallData)
    \/ \E i \in Tasks : Switch(i)

SpecConcurrent == InitConcurrent /\ [][NextConcurrent]_vars

\* ------------------------------------------------- call_service with time
\* call_service invocations one after the other; time does not stop while a
\* request is pending, and the client's timer fires when the timeout has passed;
\* nothing is assumed of the transport
NextTimed ==
    \/ Idle /\ \E m \in { <<"g", "e", "t">>, <<"p", "u", "t">> }, cnf \in { None, "base" } :
                   CallService(SmallResource, m, cnf)
    \/ FirstTransportFailure
    \/ FirstResponse(SmallResponse)
    \/ pc = "call_first" /\ \E parses \in BOOLEAN, accs \in SmallAccepts, signs \in BOOLEAN :
                                PaymentRequired(parses, accs, signs)
    \/ PaidTransportFailure
    \/ PaidResponse(SmallResponse)
    \/ Tick
    \/ RequestTimeout
    \/ CancelCall
    \/ Return

SpecTimed == Init /\ [][NextTimed]_vars /\ WF_vars(Tick \/ RequestTimeout)

\* ------------------------------------- the Requirement Selector on its own
\* custom_payment_selector applied to every accepts list and filter combination.
SelectorRequirements == [scheme : Schemes, network : Networks,
                         max_amount_required : { <<"5">>, <<"5", "0">> }]

SelectorArgs == [network_filter : { None, "base", "solana" },
                 scheme_filter : { None, "exact", "upto" },
                 max_value : Opt({4, 5})]

InitSelector ==
    /\ pc = "select"
    /\ private_key = "valid"
    /\ httpx_default_timeout = DefaultTimeout
    /\ resource = <<>> /\ method = <<>>
    /\ custom_network_filter \in NetworkFilterInputs
    /\ endpoint_path = <<>> /\ base_url = <<>>
    /\ session = "none" /\ sessionsOpened = 0 /\ elapsed = 0
    /\ requests = <<>>
    /\ signerCalls = 0
    /\ first = <<>>
    /\ accepts \in SeqsUpTo(SelectorRequirements, MaxCallAccepts)
    /\ selectorArgs \in SelectorArgs
    /\ selected = <<>>
    /\ response = <<>>
    /\ logged = None
    /\ outcome = NoOutcome
    /\ asset = None /\ max_price = <<>>
    /\ services = <<>>
    /\ heard = <<>>
    /\ running = 1
    /\ tasks = [i \in Tasks |-> IdleFrame]

RunSelector ==
    /\ pc = "select"
    /\ selected' = custom_payment_selector(accepts, selectorArgs.network_filter,
                       selectorArgs.scheme_filter, selectorArgs.max_value)
    /\ pc' = "selected"
    /\ UNCHANGED <<resource, method, custom_network_filter, envVars, endpoint_path,
                   base_url, session, sessionsOpened, elapsed, requests, signerCalls,
                   first, accepts, selectorArgs, response, logged, outcome, discVars,
                   heard>>

NextSelector == RunSelector

SpecSelector == InitSelector /\ [][NextSelector]_vars

\* ================================================================ claims
CallDone == pc = "call_done"

PaymentRequiredFirst == first # <<>> /\ first[1].status = 402

\* the network filter in effect: the per-call override when non-empty
EffectiveNetworkFilter ==
    IF custom_network_filter \notin { None, "" } THEN custom_network_filter
    ELSE selectorArgs.network_filter

Acceptable(req) ==
    /\ (EffectiveNetworkFilter = None \/ req.network = EffectiveNetworkFilter)
    /\ (selectorArgs.scheme_filter = None \/ req.scheme = selectorArgs.scheme_filter)
    /\ (selectorArgs.max_value = <<>>
           \/ (IF req.max_amount_required = <<>> THEN 0 ELSE int(req.max_amount_required))
                  <= selectorArgs.max_value[1])

Selectable == \E i \in 1..Len(accepts) : Acceptable(accepts[i])

PaidRequests == { i \in 1..Len(requests) : requests[i].payment # <<>> }

\* C1 as stated: a call whose first response is "payment required" and whose
\* accepts list holds a selectable requirement issues exactly two HTTP requests
\* and invokes the Signer exactly once.
C1_AsStated ==
    (CallDone /\ PaymentRequiredFirst /\ Selectable)
        => (Len(requests) = 2 /\ signerCalls = 1)

\* C1 amended: with a selectable requirement the Signer is invoked exactly once;
\* when it succeeds exactly two requests are issued whatever the second request's
\* outcome, when it fails exactly one; no call issues a third request or invokes
\* the Signer twice.
C1_TwoRequestsOneSigning ==
    /\ pc \in { "call_first", "call_paid", "call_done" }
           => (Len(requests) <= 2 /\ signerCalls <= 1)
    /\ pc = "call_paid"
           => (PaymentRequiredFirst /\ Selectable /\ Len(requests) = 2 /\ signerCalls = 1)
    /\ (CallDone /\ PaymentRequiredFirst /\ Selectable)
           => /\ signerCalls = 1
              /\ IF logged = "SigningError" THEN Len(requests) = 1 ELSE Len(requests) = 2

C1_Witness ==
    /\ CallDone /\ PaymentRequiredFirst /\ Selectable
    /\ Len(requests) = 2 /\ signerCalls = 1
    /\ response # <<>> /\ response[1].status = 402

\* C2: a call with a valid resource and method whose first response is not
\* "payment required" makes exactly one HTTP request and never invokes the Signer.
C2_UnpaidOneRequest ==
    (CallDone /\ first # <<>> /\ first[1].status # 402)
        => /\ Len(requests) = 1
           /\ requests[1].payment = <<>>
           /\ signerCalls = 0
           /\ response = first

C2_Witness ==
    /\ CallDone /\ first # <<>> /\ first[1].status = 200
    /\ outcome.how = "returned" /\ logged = None

\* the resources of ResourceInputs with a scheme://host/path shape
GoodResources == { HTTP \o <<":", "/", "/", "a", "/", "b">>,
                   HTTP \o <<"s", ":", "/", "/", "a", "/", "b">>,
                   HTTP \o <<":", "/", "/", "a", "/">> }

AcceptedMethods == { <<"g", "e", "t">>, <<"G", "E", "T">>, <<"p", "o", "s", "t">>,
                     <<"P", "o", "s", "t">> }

\* the tool host cancelled the invocation
WasCancelled == outcome.how = "raised" /\ outcome.exc = "CancelledError"

C4_InvalidResourceNoRequest ==
    (CallDone /\ resource \notin GoodResources)
        => /\ outcome.how = "raised" /\ outcome.exc = "ValueError"
           /\ requests = <<>> /\ session = "none"
           /\ private_key = "valid"
                  => outcome.msg \in
                         { "Resource must be a valid URL starting with http or https",
                           "Resource URL is not valid" }

C4_Witness ==
    /\ CallDone /\ private_key = "valid"
    /\ resource = HTTP \o <<":", "/", "/", "a">>
    /\ outcome.how = "raised" /\ requests = <<>>

\* C5: a method other than get or post, compared case-insensitively, fails before
\* any network call; GET, Post and the like are accepted as their lower-case forms.
C5_MethodChecked ==
    /\ (CallDone /\ method \notin AcceptedMethods)
           => /\ requests = <<>>
              /\ outcome.how = "raised" \/ outcome = RequestFailed
              /\ (private_key = "valid" /\ resource \in GoodResources)
                     => logged = "ValueError: Unsupported HTTP method"
    /\ (pc \in { "call_first", "call_paid", "call_done" } /\ private_key = "valid"
           /\ resource \in GoodResources /\ method \in AcceptedMethods)
           => /\ Len(requests) >= 1
              /\ requests[1].method = (IF Len(method) = 3 THEN "GET" ELSE "POST")
              /\ logged # "ValueError: Unsupported HTTP method"

C5_Witness ==
    /\ CallDone /\ private_key = "valid" /\ resource \in GoodResources
    /\ method = <<"P", "U", "T">>
    /\ outcome = RequestFailed /\ requests = <<>>

\* C6 as stated: a settlement-receipt header that is present but cannot be decoded
\* leaves the call in Done, returning the response body.
C6_AsStated ==
    (CallDone /\ response # <<>>
        /\ decodable(response[1].content)
        /\ "X-Payment-Response" \in DOMAIN response[1].headers
        /\ response[1].headers["X-Payment-Response"] = "%%%")
        => (outcome.how = "returned" /\ "result" \in DOMAIN outcome.value)

\* C7: the paid request is sent only after selection and authorization succeeded:
\* with no acceptable requirement the call fails with one request, no paid request
\* and no Signer invocation; with a signing failure it fails with one request.
C7_PaidOnlyAfterSelectAndSign ==
    /\ (CallDone /\ PaymentRequiredFirst /\ ~Selectable)
           => /\ outcome = RequestFailed
              /\ logged \in { "NotFoundError", "SchemaError" }
              /\ Len(requests) = 1 /\ PaidRequests = {}
              /\ signerCalls = 0
    /\ (CallDone /\ logged = "SigningError")
           => /\ outcome = RequestFailed
              /\ Len(requests) = 1 /\ PaidRequests = {}
              /\ signerCalls = 1
    /\ PaidRequests # {}
           => /\ PaidRequests = { 2 }
              /\ PaymentRequiredFirst /\ signerCalls = 1
              /\ selected # <<>> /\ Acceptable(selected[1])
              /\ requests[2].payment = selected

C7_Witness ==
    /\ CallDone /\ PaymentRequiredFirst /\ accepts # <<>> /\ ~Selectable
    /\ logged = "NotFoundError" /\ Len(requests) = 1

\* C8: for every accepts list and filter combination the selector returns the
\* first entry, in the server's order, that satisfies every filter in effect, and
\* fails with NotFoundError exactly when no entry satisfies them.
C8_FirstAcceptable ==
    pc = "selected" =>
        LET hits == { i \in 1..Len(accepts) : Acceptable(accepts[i]) }
        IN  IF hits = {} THEN selected = <<>>
            ELSE /\ selected # <<>>
                 /\ \E i \in hits : /\ \A j \in hits : i <= j
                                    /\ selected[1] = accepts[i]

C8_Witness ==
    /\ pc = "selected" /\ Len(accepts) = 2
    /\ ~Acceptable(accepts[1]) /\ Acceptable(accepts[2])
    /\ selectorArgs.max_value # <<>> /\ selectorArgs.scheme_filter # None
    /\ selected = <<accepts[2]>>

\* one accepts entry satisfies the asset and the price condition together, an
\* empty maxAmountRequired counting as zero
Retainable(req) ==
    /\ (asset = None \/ req.asset = asset)
    /\ (max_price = <<>>
           \/ (IF req.max_amount_required = <<>> THEN 0 ELSE int(req.max_amount_required))
                  <= max_price[1])

\* C9 as stated: with asset or maxPrice set, a fetched item is retained if and
\* only if one single entry of its accepts list satisfies both conditions.
C9_AsStated ==
    (pc = "disc_done" /\ services # <<>> /\ (asset # None \/ max_price # <<>>))
        => \A i \in 1..Len(services[1].items) :
               (\E j \in 1..Len(services[1].items[i].accepts) :
                    Retainable(services[1].items[i].accepts[j]))
               <=> /\ outcome.how = "returned"
                   /\ \E k \in 1..Len(outcome.value.items) :
                          outcome.value.items[k] = services[1].items[i]

RECURSIVE IsSubsequence(_, _)
IsSubsequence(a, b) ==
    IF a = <<>> THEN TRUE
    ELSE IF b = <<>> THEN FALSE
    ELSE IF Head(a) = Head(b) THEN IsSubsequence(Tail(a), Tail(b))
    ELSE IsSubsequence(a, Tail(b))

\* C10: the filter step only removes items: the returned items are a subsequence
\* of the fetched items, each unmodified, and pagination and protocol version are
\* those received from the server.
C10_FilterOnlyRemoves ==
    (pc = "disc_done" /\ outcome.how = "returned")
        => /\ services # <<>>
           /\ IsSubsequence(outcome.value.items, services[1].items)
           /\ outcome.value.pagination = services[1].pagination
           /\ outcome.value.x402_version = services[1].x402_version

C10_Witness ==
    /\ pc = "disc_done" /\ outcome.how = "returned"
    /\ Len(services[1].items) = 2 /\ Len(outcome.value.items) = 1
    /\ outcome.value.items[1] = services[1].items[2]
    /\ services[1].items[1].accepts # <<>>
    /\ outcome.value.pagination.total = 7

Terminated == pc \in { "call_done", "disc_done" }

\* C11: the HTTP client an invocation opens is released on every exit path
\* (return, error return, exception, cancellation): it is open exactly while the
\* invocation waits at an await, closed once the invocation has terminated; an
\* invocation opens at most one, and none is carried over to the next invocation.
C11_SessionReleased ==
    /\ Terminated => session # "open"
    /\ session = "open" <=> pc \in { "call_first", "call_paid", "disc_fetch" }
    /\ sessionsOpened <= 1
    /\ session = "none" <=> sessionsOpened = 0
    /\ Idle => (session = "none" /\ sessionsOpened = 0)

C11_Witness ==
    /\ CallDone /\ WasCancelled
    /\ Len(requests) = 2
    /\ session = "closed" /\ sessionsOpened = 1

\* C12: every call_service invocation that waits for the transport terminates,
\* even when the transport never responds: a pending request waits at most the
\* configured timeout (30 when HTTPX_DEFAULT_TIMEOUT is unset); when the timeout
\* passes the call fails, the timeout logged and {error} returned, and the
\* timed-out request is not issued again.
C12_TerminatesWithinTimeout ==
    /\ Pending ~> CallDone
    /\ [](Pending => (timeout # <<>> /\ elapsed <= timeout[1]))
    /\ [](httpx_default_timeout = DefaultTimeout => timeout = <<30>>)
    /\ [][(Pending /\ logged' = "ReadTimeout")
              => /\ elapsed = timeout[1]
                 /\ pc' = "call_done" /\ outcome' = RequestFailed
                 /\ requests' = requests /\ signerCalls' = signerCalls]_vars
    /\ []((CallDone /\ logged = "ReadTimeout")
              => Len(requests) = (IF PaymentRequiredFirst THEN 2 ELSE 1))

C12_Witness ==
    /\ CallDone /\ logged = "ReadTimeout" /\ outcome = RequestFailed
    /\ httpx_default_timeout = DefaultTimeout
    /\ Len(requests) = 2 /\ session = "closed"

\* the frame of task i, running or suspended
FrameOf(i) == IF i = running THEN Frame ELSE tasks[i]

\* What an invocation run alone makes of what it heard (h[1] the tool call, then
\* the transport's answers): its outcome, its request count, its Signer count.
AloneSelected(call, accs) ==
    default_payment_requirements_selector(accs,
        IF call.custom_network_filter \notin { None, "" }
        THEN call.custom_network_filter ELSE None,
        None, <<>>)

AloneEnd(e, n, k) ==
    [outcome |-> CASE e.kind = "response" ->
                          IF readRaises(e.response) # None THEN RequestFailed
                          ELSE Returned(readResult(e.response))
                   [] e.kind = "cancel" -> Raised("CancelledError", "")
                   [] OTHER -> RequestFailed,
     requests |-> n, signerCalls |-> k]

AloneCall(h) ==
    IF private_key = "invalid"
    THEN [outcome |-> Raised("ValueError", "The private key must be exactly 32 bytes long"),
          requests |-> 0, signerCalls |-> 0]
    ELSE IF resourceError(h[1].resource) # None
    THEN [outcome |-> Raised("ValueError", resourceError(h[1].resource)),
          requests |-> 0, signerCalls |-> 0]
    ELSE IF dispatch(h[1].method, <<>>) = <<>>
    THEN [outcome |-> RequestFailed, requests |-> 0, signerCalls |-> 0]
    ELSE IF h[2].kind # "payment_required" THEN AloneEnd(h[2], 1, 0)
    ELSE IF ~h[2].parses \/ AloneSelected(h[1], h[2].accepts) = <<>>
    THEN [outcome |-> RequestFailed, requests |-> 1, signerCalls |-> 0]
    ELSE IF ~h[2].signs
    THEN [outcome |-> RequestFailed, requests |-> 1, signerCalls |-> 1]
    ELSE AloneEnd(h[3], 2, 1)

AloneDiscovery(h) ==
    [outcome |->
        CASE h[2].kind = "failure" -> Raised("TransportError", <<>>)
          [] h[2].kind = "cancel" -> Raised("CancelledError", "")
          [] h[2].kind = "status" ->
                 Raised("ValueError", [status |-> h[2].status, text |-> h[2].text])
          [] h[2].kind = "page" ->
                 IF constructionRaises(h[2].data) THEN Raised("ValidationError", <<>>)
                 ELSE IF filterRaises(h[2].data.items, h[1].asset, h[1].max_price)
                 THEN Raised("ValueError", <<>>)
                 ELSE Returned([h[2].data EXCEPT
                          !.items = result_services(h[2].data.items, h[1].asset,
                                                    h[1].max_price)]),
     requests |-> 1, signerCalls |-> 0]

Alone(h) == IF h[1].kind = "call_service" THEN AloneCall(h) ELSE AloneDiscovery(h)

\* C13: however concurrent call_service and discovery_resource invocations
\* interleave at their awaits, each terminated invocation has the outcome, the
\* request count and the Signer count it has run alone on the tool call and the
\* transport answers it heard.
C13_InterleavedAsAlone ==
    \A i \in Tasks :
        FrameOf(i).pc \in { "call_done", "disc_done" }
            => /\ FrameOf(i).outcome = Alone(FrameOf(i).heard).outcome
               /\ Len(FrameOf(i).requests) = Alone(FrameOf(i).heard).requests
               /\ FrameOf(i).signerCalls = Alone(FrameOf(i).heard).signerCalls

C13_Witness ==
    /\ CallDone /\ custom_network_filter = None
    /\ Len(requests) = 2 /\ signerCalls = 1 /\ outcome.how = "returned"
    /\ \E j \in Tasks \ { running } :
           /\ tasks[j].pc = "call_first"
           /\ tasks[j].custom_network_filter = "base"

\* the error string a transport failure is answered with
TransportFailureError == "Request failed"

C15_AsStated ==
    (CallDone /\ Len(requests) = 2 /\ response # <<>>
        /\ decodable(response[1].content))
        => /\ outcome.how = "returned"
           /\ DOMAIN outcome.value = { "result", "hash" }
           /\ outcome.value.result = decode(response[1].content)

\* the transaction hash a settlement-receipt header carries
TransactionOf(h) == IF h = "b64({transaction:0xaa})" THEN "0xaa" ELSE None

\* C16: whenever call_service returns a result, the result is the body of the
\* final response, and the hash is null exactly when that response carries no
\* settlement-receipt header; with the header, the hash is the transaction hash
\* decoded from it.
C16_HashIffReceipt ==
    (CallDone /\ outcome.how = "returned" /\ "result" \in DOMAIN outcome.value)
        => /\ response # <<>>
           /\ outcome.value.result = decode(response[1].content)
           /\ (outcome.value.hash = None)
                  <=> ("X-Payment-Response" \notin DOMAIN response[1].headers)
           /\ "X-Payment-Response" \in DOMAIN response[1].headers
                  => outcome.value.hash
                         = TransactionOf(response[1].headers["X-Payment-Response"])

C16_Witness ==
    /\ CallDone /\ outcome.how = "returned" /\ "result" \in DOMAIN outcome.value
    /\ Len(requests) = 2 /\ response # <<>> /\ response[1].status = 200
    /\ outcome.value.hash = "0xaa"
    /\ outcome.value.result = <<"h", "i">>

\* C17 as stated: an empty maxAmountRequired counts as zero wherever it is used:
\* discovery_resource with maxPrice set never fails on a page that deserialization
\* accepted, and an item with an entry of the requested asset whose
\* maxAmountRequired is empty is retained.
C17_AsStated ==
    (pc = "disc_done" /\ services # <<>> /\ max_price # <<>>)
        => /\ outcome.how = "returned"
           /\ \A i \in 1..Len(services[1].items) :
                  (\E j \in 1..Len(services[1].items[i].accepts) :
                       /\ services[1].items[i].accepts[j].max_amount_required = <<>>
                       /\ asset \in { None, services[1].items[i].accepts[j].asset })
                  => \E k \in 1..Len(outcome.value.items) :
                         outcome.value.items[k] = services[1].items[i]

C19_NonOkRaised ==
    (pc = "disc_done" /\ Len(heard) = 2 /\ heard[2].kind = "status")
        => /\ heard[2].status # 200
           /\ outcome.how = "raised" /\ outcome.exc = "ValueError"
           /\ outcome.msg.status = heard[2].status
           /\ outcome.msg.text = heard[2].text
           /\ services = <<>>
           /\ Len(requests) = 1 /\ session = "closed"

C19_Witness ==
    /\ pc = "disc_done" /\ Len(heard) = 2 /\ heard[2].kind = "status"
    /\ heard[2].status = 204 /\ max_price # <<>>
    /\ outcome.how = "raised" /\ outcome.msg.text = "unavailable"

\* C20: a non-empty customNetworkFilter is the network filter of the selection, in
\* place of the one the paying client passes, schemeFilter and maxValue going
\* through unchanged; an absent or empty customNetworkFilter leaves the client's
\* network filter as passed.
C20_OverrideTakesPrecedence ==
    pc = "selected" =>
        /\ custom_network_filter \in { None, "" }
               => selected = default_payment_requirements_selector(accepts,
                                 selectorArgs.network_filter,
                                 selectorArgs.scheme_filter, selectorArgs.max_value)
        /\ custom_network_filter \notin { None, "" }
               => /\ selected = default_payment_requirements_selector(accepts,
                                    custom_network_filter,
                                    selectorArgs.scheme_filter, selectorArgs.max_value)
                  /\ selected # <<>> => selected[1].network = custom_network_filter

C20_Witness ==
    /\ pc = "selected" /\ custom_network_filter = "base"
    /\ selectorArgs.network_filter = "solana"
    /\ selectorArgs.scheme_filter = "upto" /\ selectorArgs.max_value = <<5>>
    /\ Len(accepts) = 2 /\ accepts[1].network = "solana"
    /\ selected = <<accepts[2]>>

====
